---- MODULE Spec2Model ----
(***************************************************************************)
(* State-machine model of the 3D model viewer (harutomo51/3d-model-viewer). *)
(*                                                                         *)
(* The repository holds two revisions of the ModelViewer component:        *)
(*   "main"  : src/src/components/ModelViewer.tsx                          *)
(*   "part0" : src/unnamed/part_000                                        *)
(* Their OBJModel / FBXModel / GLTFModel / ModelLoader / getModelType are  *)
(* textually identical; the file handlers and the option widgets differ.   *)
(* The variable `build` fixes which revision is running.                   *)
(*                                                                         *)
(* Conventions                                                             *)
(*   - file names are sequences of one-character strings;                  *)
(*   - lengths of geometry are integers, chosen even so that the centre    *)
(*     of a box ((min+max)*0.5) is an integer;                             *)
(*   - camera distances are exact rationals <<n, d>> (d > 0, lowest terms); *)
(*   - angles in radians are rational multiples of pi, <<n, d>> = n*pi/d.  *)
(*   - objects are unrotated, unscaled and have no transformed parent.     *)
(***************************************************************************)
EXTENDS Integers, Sequences, FiniteSets, TLC

(***************************************************************************)
(* Bounds of the model                                                     *)
(***************************************************************************)
\* number of blob URLs URL.createObjectURL may hand out in one behaviour
MaxUrls == 3
\* largest number of files in one selection or drop
MaxFiles == 2

(***************************************************************************)
(* Strings                                                                 *)
(***************************************************************************)
Upper == <<"A","B","C","D","E","F","G","H","I","J","K","L","M",
           "N","O","P","Q","R","S","T","U","V","W","X","Y","Z">>
Lower == <<"a","b","c","d","e","f","g","h","i","j","k","l","m",
           "n","o","p","q","r","s","t","u","v","w","x","y","z">>

\* String.prototype.toLowerCase, one character
lowerChar(c) ==
  IF \E i \in 1..26 : Upper[i] = c
  THEN Lower[CHOOSE i \in 1..26 : Upper[i] = c]
  ELSE c

\* String.prototype.toLowerCase
toLowerCase(s) == [i \in 1..Len(s) |-> lowerChar(s[i])]

\* String.prototype.split(sep) for a one-character separator: the pieces
\* between consecutive separators, n + 1 pieces for n separators
split(s, sep) ==
  LET at     == {i \in 1..Len(s) : s[i] = sep}
      n      == Cardinality(at)
      \* the position of the k-th separator; 0 before the first, Len + 1 after
      \* the last
      pos(k) == IF k = 0 THEN 0
                ELSE IF k = n + 1 THEN Len(s) + 1
                ELSE CHOOSE i \in at : Cardinality({j \in at : j < i}) = k - 1
  IN  [k \in 1..(n + 1) |-> SubSeq(s, pos(k - 1) + 1, pos(k) - 1)]

\* Array.prototype.pop: the last element (split never returns an empty array)
pop(a) == a[Len(a)]

\* String.prototype.endsWith
endsWith(s, suffix) ==
  /\ Len(s) >= Len(suffix)
  /\ SubSeq(s, Len(s) - Len(suffix) + 1, Len(s)) = suffix

DotObj == <<".", "o", "b", "j">>
DotMtl == <<".", "m", "t", "l">>

\* name.replace(/\.obj$/i, '.mtl')
replaceObjWithMtl(name) ==
  IF endsWith(toLowerCase(name), DotObj)
  THEN SubSeq(name, 1, Len(name) - 4) \o DotMtl
  ELSE name

(***************************************************************************)
(* getModelType and ModelLoader                                            *)
(***************************************************************************)
ModelType == {"gltf", "glb", "obj", "fbx"}
NoType == "null"
\* the Error thrown by getModelType
UnsupportedFileType == "Unsupported file type"

getModelType(filename) ==
  LET extension == toLowerCase(pop(split(filename, ".")))
  IN  CASE extension = <<"o","b","j">>     -> "obj"
        [] extension = <<"f","b","x">>     -> "fbx"
        [] extension = <<"g","l","t","f">> -> "gltf"
        [] extension = <<"g","l","b">>     -> "glb"
        [] OTHER                           -> UnsupportedFileType

\* the component ModelLoader returns for a type
ModelLoader(t) ==
  CASE t = "obj"             -> "OBJModel"
    [] t = "fbx"             -> "FBXModel"
    [] t \in {"gltf", "glb"} -> "GLTFModel"
    [] OTHER                 -> "null"

(***************************************************************************)
(* Exact rationals                                                         *)
(***************************************************************************)
Abs(n) == IF n < 0 THEN -n ELSE n

RECURSIVE Gcd(_, _)
Gcd(a, b) == IF b = 0 THEN a ELSE Gcd(b, a % b)

\* lowest terms, positive denominator
RNorm(n, d) ==
  LET g == Gcd(Abs(n), Abs(d))
      s == IF d < 0 THEN -1 ELSE 1
  IN  <<(s * n) \div g, (s * d) \div g>>

RInt(n) == <<n, 1>>
RMul(p, q) == RNorm(p[1] * q[1], p[2] * q[2])
\* division by a non-zero rational
RDiv(p, q) == RNorm(p[1] * q[2], p[2] * q[1])
RAbs(p) == <<Abs(p[1]), p[2]>>

(***************************************************************************)
(* Angles                                                                  *)
(***************************************************************************)
\* deg * (Math.PI / 180), as a rational multiple of pi
toRadians(deg) == RNorm(deg, 180)

\* Math.sin of n*pi/d, to six decimals, for the angles the model uses
sin(a) ==
  CASE a = <<1, 12>> -> <<258819, 1000000>>
    [] a = <<1, 8>>  -> <<382683, 1000000>>
    [] a = <<1, 6>>  -> <<1, 2>>
    [] a = <<1, 4>>  -> <<707107, 1000000>>
    [] a = <<1, 3>>  -> <<866025, 1000000>>

(***************************************************************************)
(* Geometry: THREE.Box3 over an object graph                               *)
(***************************************************************************)
Vec(x, y, z) == <<x, y, z>>
VAdd(u, v) == <<u[1] + v[1], u[2] + v[2], u[3] + v[3]>>

\* an object graph without any geometry
NoGeometry == [empty |-> TRUE, min |-> Vec(0, 0, 0), max |-> Vec(0, 0, 0)]
Geom(mn, mx) == [empty |-> FALSE, min |-> mn, max |-> mx]

\* the local bounding boxes of the files a user may open
Geometries ==
  { NoGeometry,
    Geom(Vec(0, 0, 0), Vec(2, 4, 6)) }

\* new THREE.Box3().setFromObject(obj): the world box of the object
setFromObject(obj) ==
  IF obj.geom.empty
  THEN [empty |-> TRUE, min |-> Vec(0, 0, 0), max |-> Vec(0, 0, 0)]
  ELSE [empty |-> FALSE,
        min |-> VAdd(obj.geom.min, obj.position),
        max |-> VAdd(obj.geom.max, obj.position)]

\* Box3.getSize: (0,0,0) for an empty box, max - min otherwise
getSize(box) ==
  IF box.empty THEN Vec(0, 0, 0)
  ELSE Vec(box.max[1] - box.min[1], box.max[2] - box.min[2],
           box.max[3] - box.min[3])

\* Box3.getCenter: (0,0,0) for an empty box, (min + max) * 0.5 otherwise
getCenter(box) ==
  IF box.empty THEN Vec(0, 0, 0)
  ELSE Vec((box.min[1] + box.max[1]) \div 2, (box.min[2] + box.max[2]) \div 2,
           (box.min[3] + box.max[3]) \div 2)

\* variant: Math.max(size.x, size.y), the depth left out
MathMaxOfTwo(a, b, c) == IF a >= b THEN a ELSE b

\* Math.max of three numbers
MathMax(a, b, c) ==
  LET ab == IF a >= b THEN a ELSE b
  IN  IF ab >= c THEN ab ELSE c

(***************************************************************************)
(* Camera                                                                  *)
(***************************************************************************)
\* <Canvas camera={{ position: [0, 0, 10], fov: 45, near: 0.1, far: 1000 }}>
CanvasCamera ==
  [type       |-> "PerspectiveCamera",
   fov        |-> 45,
   position   |-> Vec(RInt(0), RInt(0), RInt(10)),
   near       |-> <<1, 10>>,
   far        |-> RInt(1000),
   projection |-> [near |-> <<1, 10>>, far |-> RInt(1000)]]

\* camera.updateProjectionMatrix(): the matrix is built from near and far
updateProjectionMatrix(cam) ==
  [cam EXCEPT !.projection = [near |-> cam.near, far |-> cam.far]]

\* the value of cameraZ when the camera is not a PerspectiveCamera
NoDistance == <<0, 0>>

(***************************************************************************)
(* The auto-fit routine, once per component                                *)
(***************************************************************************)
\* variant: updateProjectionMatrix() called before camera.far is assigned
OBJFitEarlyUpdate(obj, camera) ==
  LET box     == setFromObject(obj)
      size    == getSize(box)
      center  == getCenter(box)
      obj1    == [obj EXCEPT !.position = Vec(-center[1], -center[2], -center[3]),
                             !.fitted = TRUE]
      maxDim  == MathMax(size[1], size[2], size[3])
      fov     == toRadians(camera.fov)
      cameraZ == RMul(RAbs(RDiv(RInt(maxDim), sin(RMul(fov, <<1, 2>>)))),
                      <<3, 2>>)
      cam1    == [camera EXCEPT !.position[3] = cameraZ]
      cam2    == updateProjectionMatrix([cam1 EXCEPT !.near = <<1, 10>>])
      cam3    == [cam2 EXCEPT !.far = RMul(cameraZ, RInt(10))]
  IN  [obj |-> obj1, camera |-> cam3, cameraZ |-> cameraZ]

\* OBJModel, the body of the objLoader.load callback
OBJFit(obj, camera) ==
  LET box     == setFromObject(obj)
      size    == getSize(box)
      center  == getCenter(box)
      obj1    == [obj EXCEPT !.position = Vec(-center[1], -center[2], -center[3]),
                             !.fitted = TRUE]
      maxDim  == MathMax(size[1], size[2], size[3])
  IN  IF camera.type = "PerspectiveCamera"
      THEN LET fov     == toRadians(camera.fov)
               cameraZ == RMul(RAbs(RDiv(RInt(maxDim), sin(RMul(fov, <<1, 2>>)))),
                               <<3, 2>>)
               cam1    == [camera EXCEPT !.position[3] = cameraZ]
               minZ    == <<1, 10>>
               maxZ    == RMul(cameraZ, RInt(10))
               cam2    == [cam1 EXCEPT !.near = minZ]
               cam3    == [cam2 EXCEPT !.far = maxZ]
           IN  [obj |-> obj1, camera |-> updateProjectionMatrix(cam3),
                cameraZ |-> cameraZ]
      ELSE [obj |-> obj1, camera |-> camera, cameraZ |-> NoDistance]

\* variant: the effect body is skipped
FBXFitSkipped(fbx, camera) ==
  [obj |-> fbx, camera |-> camera, cameraZ |-> NoDistance]

\* FBXModel, the first effect
FBXFit(fbx, camera) ==
  LET box     == setFromObject(fbx)
      size    == getSize(box)
      center  == getCenter(box)
      fbx1    == [fbx EXCEPT !.position = Vec(-center[1], -center[2], -center[3]),
                             !.fitted = TRUE]
      maxDim  == MathMax(size[1], size[2], size[3])
  IN  IF camera.type = "PerspectiveCamera"
      THEN LET fov     == toRadians(camera.fov)
               cameraZ == RMul(RAbs(RDiv(RInt(maxDim), sin(RMul(fov, <<1, 2>>)))),
                               <<3, 2>>)
               cam1    == [camera EXCEPT !.position[3] = cameraZ]
               minZ    == <<1, 10>>
               maxZ    == RMul(cameraZ, RInt(10))
               cam2    == [cam1 EXCEPT !.near = minZ]
               cam3    == [cam2 EXCEPT !.far = maxZ]
           IN  [obj |-> fbx1, camera |-> updateProjectionMatrix(cam3),
                cameraZ |-> cameraZ]
      ELSE [obj |-> fbx1, camera |-> camera, cameraZ |-> NoDistance]

\* variant: the margin factor 1.5 left out
GLTFFitNoMargin(model, camera) ==
  LET box     == setFromObject(model)
      size    == getSize(box)
      center  == getCenter(box)
      model1  == [model EXCEPT !.position = Vec(-center[1], -center[2], -center[3]),
                               !.fitted = TRUE]
      maxDim  == MathMax(size[1], size[2], size[3])
      fov     == toRadians(camera.fov)
      cameraZ == RAbs(RDiv(RInt(maxDim), sin(RMul(fov, <<1, 2>>))))
      cam1    == [camera EXCEPT !.position[3] = cameraZ, !.near = <<1, 10>>,
                                !.far = RMul(cameraZ, RInt(10))]
  IN  [obj |-> model1, camera |-> updateProjectionMatrix(cam1),
       cameraZ |-> cameraZ]

\* GLTFModel, the effect
GLTFFit(model, camera) ==
  LET box     == setFromObject(model)
      size    == getSize(box)
      center  == getCenter(box)
      model1  == [model EXCEPT !.position = Vec(-center[1], -center[2], -center[3]),
                               !.fitted = TRUE]
      maxDim  == MathMax(size[1], size[2], size[3])
  IN  IF camera.type = "PerspectiveCamera"
      THEN LET fov     == toRadians(camera.fov)
               cameraZ == RMul(RAbs(RDiv(RInt(maxDim), sin(RMul(fov, <<1, 2>>)))),
                               <<3, 2>>)
               cam1    == [camera EXCEPT !.position[3] = cameraZ]
               minZ    == <<1, 10>>
               maxZ    == RMul(cameraZ, RInt(10))
               cam2    == [cam1 EXCEPT !.near = minZ]
               cam3    == [cam2 EXCEPT !.far = maxZ]
           IN  [obj |-> model1, camera |-> updateProjectionMatrix(cam3),
                cameraZ |-> cameraZ]
      ELSE [obj |-> model1, camera |-> camera, cameraZ |-> NoDistance]

(***************************************************************************)
(* Files, URLs, objects                                                    *)
(***************************************************************************)
\* the names of the files a user may select or drop
FileNames ==
  { <<"A", ".", "O", "B", "J">>,
    <<"a", ".", "m", "t", "l">>,
    <<"m", ".", "f", "b", "x">>,
    <<"s", ".", "g", "l", "b">>,
    <<"s", ".", "g", "l", "t", "f">>,
    <<"o", "b", "j">> }

\* event.target.files / event.dataTransfer.files
\* the lists of n names, as tuples
FilesOfLen(n) ==
  CASE n = 0 -> { <<>> }
    [] n = 1 -> { <<a>> : a \in FileNames }
    [] n = 2 -> { <<a, b>> : a \in FileNames, b \in FileNames }
    [] n = 3 -> { <<a, b, c>> : a \in FileNames, b \in FileNames,
                                c \in FileNames }
FileLists == UNION { FilesOfLen(n) : n \in 0..MaxFiles }
\* <input type="file"> without `multiple` hands over at most one file
SingleFileLists == FilesOfLen(0) \cup FilesOfLen(1)
\* A handler reads a file list only through its decision (plans[files]), so
\* two lists with the same decision give the same step: one list is kept
\* for every decision the handler can take.
OnePerPlan(plans) ==
  { CHOOSE files \in DOMAIN plans : plans[files] = p :
      p \in { plans[files] : files \in DOMAIN plans } }

NoFile == <<>>
\* a URL: its scheme and, for a blob URL, its serial number
NullUrl == [id |-> 0, scheme |-> "null"]
\* URL.createObjectURL(file), the n-th URL created: "blob:<n>"
createObjectURL(n, file) == [id |-> n, scheme |-> "blob"]

\* url.startsWith('http') || url.startsWith('/')
isServerUrl(u) == u.scheme = "http" \/ u.scheme = "/"

NoObject == [url |-> 0]
\* the THREE.Group a loader hands over: at the origin, not yet fitted
NewObject(u, g) ==
  [url |-> u.id, geom |-> g, position |-> Vec(0, 0, 0), fitted |-> FALSE,
   skeleton |-> FALSE]
\* the Group useFBX hands over; b: it has a THREE.Mesh with a skeleton
NewFBX(u, g, b) == [NewObject(u, g) EXCEPT !.skeleton = b]

\* const environmentPresets = [...]
environmentPresets ==
  <<"sunset", "dawn", "night", "warehouse", "forest",
    "apartment", "studio", "city", "park", "lobby">>

\* positions the user reaches with the orbit / zoom / pan controls
OrbitPositions == { Vec(RInt(4), RInt(3), RInt(5)) }

\* the presets the user picks in the selector
PresetsPicked == {"city", "sunset"}

(***************************************************************************)
(* State                                                                   *)
(***************************************************************************)
VARIABLES
  build,              \* which revision of ModelViewer runs: "main" or "part0"
  url, type, mtlUrl,  \* ModelViewer state
  showBones, environmentPreset,
  fileName,           \* ModelViewer state of part0
  created,            \* number of blob URLs created so far
  camera,             \* the Canvas camera
  model,              \* OBJModel state: the object it renders
  fbx,                \* FBXModel: the object useFBX(url) returned
  gltfScene,          \* GLTFModel: the scene useGLTF(url) returned
  inflight,           \* loads started by OBJModel effects, not yet called back
  skeletonRef,        \* FBXModel: skeletonRef.current
  helpers,            \* the SkeletonHelper objects in the scene
  ev,                 \* history: what the last file event did
  lastFit,            \* history: the auto-fit run by the last step, if any
  hist                \* history: what the last accepted file replaced

vars == <<build, url, type, mtlUrl, showBones, environmentPreset, fileName,
          created, camera, model, fbx, gltfScene, inflight, skeletonRef,
          helpers, ev, lastFit, hist>>

NoEvent == [handler |-> "none"]
NoFit == [by |-> "none"]
\* replaced: the url ids of the objects shown when the current file was
\* accepted; loaded: the object of the current url has been delivered
NoHistory == [replaced |-> {}, loaded |-> FALSE]
\* skeletonRef.current = null
NoHelper == 0

\* the Canvas, and inside it the component ModelLoader returns, is rendered
\* only when url && type
MountedOf(u, t) ==
  IF u # NullUrl /\ t # NoType THEN ModelLoader(t) ELSE "null"
Mounted == MountedOf(url, type)

\* variant: the checkbox rendered without the test of type
BonesCheckboxWithoutType == url # NullUrl /\ type # NoType

\* {type === 'fbx' && (<input type="checkbox" .../>)} inside url && type
BonesCheckboxOffered == url # NullUrl /\ type # NoType /\ type = "fbx"
\* {(type === 'glb' || type === 'gltf') && (<select .../>)} inside url && type
EnvironmentSelectOffered ==
  url # NullUrl /\ type # NoType /\ (type = "glb" \/ type = "gltf")
\* {url && type ? (<Canvas/> ...) : (<div> ... <input type="file" .../></div>)}:
\* the file input of src/src/components/ModelViewer.tsx is rendered only
\* while no model is shown
FileInputOffered == ~(url # NullUrl /\ type # NoType)

Init ==
  /\ build \in {"main", "part0"}
  /\ url = NullUrl
  /\ type = NoType
  /\ mtlUrl = NullUrl
  /\ showBones = FALSE
  /\ environmentPreset = "city"
  /\ fileName = NoFile
  /\ created = 0
  /\ camera = CanvasCamera
  /\ model = NoObject
  /\ fbx = NoObject
  /\ gltfScene = NoObject
  /\ inflight = {}
  /\ skeletonRef = NoHelper
  /\ helpers = <<>>
  /\ ev = NoEvent
  /\ lastFit = NoFit
  /\ hist = NoHistory

\* the objects the three components hand to <primitive object={...} />
Displayed == {model, fbx, gltfScene} \ {NoObject}
DisplayedIds == { o.url : o \in Displayed }

(***************************************************************************)
(* FBXModel, the second effect: the skeleton helper.  A helper is named by *)
(* the url id of the fbx it was built for; the scene holds a list of them. *)
(***************************************************************************)
\* scene.remove(helper): the first occurrence leaves the list of children
sceneRemove(scn, h) ==
  IF \E i \in 1..Len(scn) : scn[i] = h
  THEN LET i == CHOOSE k \in 1..Len(scn) :
                  scn[k] = h /\ \A j \in 1..(k-1) : scn[j] # h
       IN  SubSeq(scn, 1, i-1) \o SubSeq(scn, i+1, Len(scn))
  ELSE scn

\* the function the effect returns
skeletonCleanup(ref, scn) ==
  IF ref # NoHelper
  THEN [ref |-> NoHelper, scene |-> sceneRemove(scn, ref)]
  ELSE [ref |-> ref, scene |-> scn]

\* the effect body, with the fbx and the showBones of the committed render
skeletonEffect(fbxObj, show, ref, scn) ==
  IF fbxObj # NoObject
  THEN LET s1 == IF ref # NoHelper THEN sceneRemove(scn, ref) ELSE scn
           r1 == NoHelper
           hasBones == fbxObj.skeleton
       IN  IF show /\ hasBones
           THEN [ref |-> fbxObj.url, scene |-> Append(s1, fbxObj.url)]
           ELSE [ref |-> r1, scene |-> s1]
  ELSE [ref |-> ref, scene |-> scn]

\* a dependency of [fbx, scene, showBones] changed in a committed render:
\* the cleanup of the last run, then the effect
skeletonRerun(fbxObj, show, ref, scn) ==
  LET c == skeletonCleanup(ref, scn)
  IN  skeletonEffect(fbxObj, show, c.ref, c.scene)

(***************************************************************************)
(* Rendering after a state change: ModelLoader mounts / unmounts the       *)
(* components and the OBJModel effect starts its loads                     *)
(***************************************************************************)
\* the load the OBJModel effect starts for (u, m): the MTL first when an
\* mtlUrl is given, a HEAD probe for a server URL, the OBJ directly otherwise
\* calls: what this run of the effect has called so far, in order
\*   "fetch" the HEAD probe, "mtlLoader.load", "setMaterials",
\*   "objLoader.load"
objEffect(u, m) ==
  [url |-> u, mtlUrl |-> m, materials |-> FALSE, live |-> TRUE,
   stage |-> IF m # NullUrl THEN "mtl"
             ELSE IF isServerUrl(u) THEN "head" ELSE "obj",
   calls |-> IF m # NullUrl THEN <<"mtlLoader.load">>
             ELSE IF isServerUrl(u) THEN <<"fetch">> ELSE <<"objLoader.load">>]

\* variant: a component that leaves the tree keeps its object in the scene
RenderWithoutUnmount(u, t, m) ==
  LET old == Mounted
      new == MountedOf(u, t)
      kept == IF old = "OBJModel" /\ new # "OBJModel"
              THEN { [l EXCEPT !.live = FALSE] : l \in inflight }
              ELSE inflight
      effectRuns == new = "OBJModel"
                    /\ (old # "OBJModel" \/ u # url \/ m # mtlUrl)
  IN  /\ inflight' = IF effectRuns THEN kept \cup {objEffect(u, m)} ELSE kept
      /\ model' = model
      /\ fbx' = IF new = "FBXModel" THEN NoObject ELSE fbx
      /\ gltfScene' = IF new = "GLTFModel" THEN NoObject ELSE gltfScene
      /\ LET c == skeletonCleanup(skeletonRef, helpers)
         IN  IF old = "FBXModel" /\ new # "FBXModel"
             THEN skeletonRef' = c.ref /\ helpers' = c.scene
             ELSE UNCHANGED <<skeletonRef, helpers>>
      /\ hist' = [replaced |-> DisplayedIds, loaded |-> FALSE]

\* the state of the three components after ModelViewer has re-rendered with
\* (u, t, m)
Render(u, t, m) ==
  LET old == Mounted
      new == MountedOf(u, t)
      \* loads of an unmounted OBJModel keep running, their setModel is lost
      kept == IF old = "OBJModel" /\ new # "OBJModel"
              THEN { [l EXCEPT !.live = FALSE] : l \in inflight }
              ELSE inflight
      \* useEffect(..., [url, mtlUrl, scene, camera])
      effectRuns == new = "OBJModel"
                    /\ (old # "OBJModel" \/ u # url \/ m # mtlUrl)
  IN  /\ inflight' = IF effectRuns THEN kept \cup {objEffect(u, m)} ELSE kept
      /\ model' = IF old = "OBJModel" /\ new = "OBJModel" THEN model
                  ELSE NoObject
      \* useFBX(url) / useGLTF(url) suspend until the new url is loaded
      /\ fbx' = IF old = "FBXModel" /\ new = "FBXModel" /\ u = url THEN fbx
                ELSE NoObject
      /\ gltfScene' = IF old = "GLTFModel" /\ new = "GLTFModel" /\ u = url
                      THEN gltfScene ELSE NoObject
      \* FBXModel unmounts: its effect cleanup runs.  While useFBX suspends
      \* on a new url the component stays mounted and no effect runs.
      /\ LET c == skeletonCleanup(skeletonRef, helpers)
         IN  IF old = "FBXModel" /\ new # "FBXModel"
             THEN skeletonRef' = c.ref /\ helpers' = c.scene
             ELSE UNCHANGED <<skeletonRef, helpers>>
      /\ hist' = [replaced |-> DisplayedIds, loaded |-> FALSE]

\* what a file event did: the list it was given, the file it chose, the name handed to getModelType
\* (NoFile when it was not called) and its result, the alert shown, an
\* exception that left the handler, and whether url, type or mtlUrl changed
Event(h, d, alert, threw) ==
  [handler |-> h, files |-> d.files, file |-> d.file, name |-> d.name, result |-> d.result,
   mtlFile |-> d.mtlFile, alert |-> alert, threw |-> threw,
   changed |-> (url' # url \/ type' # type \/ mtlUrl' # mtlUrl)]

\* Array.prototype.find(f => f.name.toLowerCase() === n.toLowerCase())
findByName(files, n) ==
  IF \E i \in 1..Len(files) : toLowerCase(files[i]) = toLowerCase(n)
  THEN files[CHOOSE i \in 1..Len(files) :
               /\ toLowerCase(files[i]) = toLowerCase(n)
               /\ \A j \in 1..(i-1) : toLowerCase(files[j]) # toLowerCase(n)]
  ELSE NoFile

\* files.find(file => file.name.toLowerCase().endsWith('.obj'))
findObj(files) ==
  IF \E i \in 1..Len(files) : endsWith(toLowerCase(files[i]), DotObj)
  THEN files[CHOOSE i \in 1..Len(files) :
               /\ endsWith(toLowerCase(files[i]), DotObj)
               /\ \A j \in 1..(i-1) : ~endsWith(toLowerCase(files[j]), DotObj)]
  ELSE NoFile

(***************************************************************************)
(* File events of src/src/components/ModelViewer.tsx                       *)
(*                                                                         *)
(* What a handler decides is a function of the file list alone; it is      *)
(* written as an operator (..Plan) and tabulated over FileLists, and the   *)
(* action applies the decision to the state.                               *)
(*   kind   "none"   no file, nothing happens                              *)
(*          "reject" getModelType threw, the catch block alerts            *)
(*          "obj"    url, type = obj and mtlUrl are set                    *)
(*          "other"  url and type are set                                  *)
(*   name   the name handed to getModelType, NoFile when it is not called  *)
(***************************************************************************)
Plan(kind, file, name, result, mtlFile) ==
  [kind |-> kind, file |-> file, name |-> name, result |-> result,
   mtlFile |-> mtlFile]

fileChangePlan(files) ==
  LET file == IF Len(files) > 0 THEN files[1] ELSE NoFile
  IN  IF file = NoFile
      THEN Plan("none", NoFile, NoFile, "", NoFile)
      ELSE LET fileType == getModelType(file)
           IN  IF fileType = UnsupportedFileType
               THEN Plan("reject", file, file, fileType, NoFile)
               ELSE IF fileType = "obj"
               THEN LET mtlFileName == replaceObjWithMtl(file)
                    IN  Plan("obj", file, file, fileType,
                             findByName(files, mtlFileName))
               ELSE Plan("other", file, file, fileType, NoFile)

dropPlan(files) ==
  LET objFile == findObj(files)
  IN  IF objFile # NoFile
      THEN LET mtlFileName == replaceObjWithMtl(objFile)
           IN  Plan("obj", objFile, NoFile, "obj",
                    findByName(files, mtlFileName))
      ELSE LET file == IF Len(files) > 0 THEN files[1] ELSE NoFile
           IN  IF file = NoFile
               THEN Plan("none", NoFile, NoFile, "", NoFile)
               ELSE LET fileType == getModelType(file)
                    IN  IF fileType = UnsupportedFileType
                        THEN Plan("reject", file, file, fileType, NoFile)
                        ELSE Plan("other", file, file, fileType, NoFile)

FileChangePlans == [files \in FileLists |-> fileChangePlan(files)]
\* the decision taken for this list of files
OfList(p, files) ==
  [kind |-> p.kind, file |-> p.file, name |-> p.name, result |-> p.result,
   mtlFile |-> p.mtlFile, files |-> files]
DropPlans == [files \in FileLists |-> dropPlan(files)]
FileChangeLists == OnePerPlan(FileChangePlans)
DropLists == OnePerPlan(DropPlans)

\* the branch both handlers share in shape: url, type = obj, and the URL of
\* the MTL found in the same list, or null
AcceptObj(h, d) ==
  LET objectUrl == createObjectURL(created + 1, d.file)
      newMtl    == IF d.mtlFile # NoFile
                   THEN createObjectURL(created + 2, d.mtlFile)
                   ELSE NullUrl
      n         == IF d.mtlFile # NoFile THEN 2 ELSE 1
  IN  /\ created + n <= MaxUrls
      /\ url' = objectUrl
      /\ type' = "obj"
      /\ mtlUrl' = newMtl
      /\ created' = created + n
      /\ Render(objectUrl, "obj", newMtl)
      /\ ev' = Event(h, d, "", FALSE)

\* url and type are set; mtlUrl becomes m
AcceptOther(h, d, m) ==
  LET objectUrl == createObjectURL(created + 1, d.file)
  IN  /\ created + 1 <= MaxUrls
      /\ url' = objectUrl
      /\ type' = d.result
      /\ mtlUrl' = m
      /\ created' = created + 1
      /\ Render(objectUrl, d.result, m)
      /\ ev' = Event(h, d, "", FALSE)

\* variant: an empty catch block
RejectWithoutAlert(h, d) ==
  /\ UNCHANGED <<hist, skeletonRef, helpers>>
  /\ UNCHANGED <<url, type, mtlUrl, created, model, fbx, gltfScene, inflight>>
  /\ ev' = Event(h, d, "", FALSE)

\* catch (error) { alert(error) }: nothing but the alert happens
Reject(h, d) ==
  /\ UNCHANGED <<hist, skeletonRef, helpers>>
  /\ UNCHANGED <<url, type, mtlUrl, created, model, fbx, gltfScene, inflight>>
  /\ ev' = Event(h, d, d.result, FALSE)

\* no file in the list: the handler does nothing
Nothing ==
  /\ UNCHANGED <<hist, skeletonRef, helpers>>
  /\ UNCHANGED <<url, type, mtlUrl, created, model, fbx, gltfScene, inflight>>
  /\ ev' = NoEvent

handleFileChange(files) ==
  /\ build = "main"
  /\ FileInputOffered
  /\ LET d == OfList(FileChangePlans[files], files)
     IN  CASE d.kind = "none"   -> Nothing
           [] d.kind = "reject" -> Reject("handleFileChange", d)
           [] d.kind = "obj"    -> AcceptObj("handleFileChange", d)
           \* mtlUrl is not touched when the type is not obj
           [] d.kind = "other"  -> AcceptOther("handleFileChange", d, mtlUrl)
  /\ lastFit' = NoFit
  /\ UNCHANGED <<build, showBones, environmentPreset, fileName, camera>>

\* variant: the branch for other formats without setMtlUrl(null)
handleDropKeepsMtl(files) ==
  /\ build = "main"
  /\ LET d == OfList(DropPlans[files], files)
     IN  CASE d.kind = "none"   -> Nothing
           [] d.kind = "reject" -> Reject("handleDrop", d)
           [] d.kind = "obj"    -> AcceptObj("handleDrop", d)
           [] d.kind = "other"  -> AcceptOther("handleDrop", d, mtlUrl)
  /\ lastFit' = NoFit
  /\ UNCHANGED <<build, showBones, environmentPreset, fileName, camera>>

handleDrop(files) ==
  /\ build = "main"
  /\ LET d == OfList(DropPlans[files], files)
     IN  CASE d.kind = "none"   -> Nothing
           [] d.kind = "reject" -> Reject("handleDrop", d)
           [] d.kind = "obj"    -> AcceptObj("handleDrop", d)
           \* setMtlUrl(null)
           [] d.kind = "other"  -> AcceptOther("handleDrop", d, NullUrl)
  /\ lastFit' = NoFit
  /\ UNCHANGED <<build, showBones, environmentPreset, fileName, camera>>

(***************************************************************************)
(* File events of src/unnamed/part_000                                     *)
(***************************************************************************)
\* alert('サポートされていないファイル形式です。')
UnsupportedFormatAlert == "sapoto sarete inai fairu keishiki desu."

\* what both part0 handlers decide on the first file: getModelType is called
\* outside any try block, so its Error leaves the handler ("throw"); the
\* else branch with the alert needs a falsy fileType
firstFilePlan(files) ==
  IF Len(files) = 0
  THEN Plan("none", NoFile, NoFile, "", NoFile)
  ELSE LET file     == files[1]
           fileType == getModelType(file)
       IN  IF fileType = UnsupportedFileType
           THEN Plan("throw", file, file, fileType, NoFile)
           ELSE IF fileType # ""
           THEN Plan("other", file, file, fileType, NoFile)
           ELSE Plan("alert", file, file, fileType, NoFile)

FirstFilePlans == [files \in FileLists |-> firstFilePlan(files)]
FirstFileLists == OnePerPlan(FirstFilePlans)

\* setFileName(file.name) comes first and survives the exception
AcceptFirstP0(h, d) ==
  /\ fileName' = d.file
  /\ CASE d.kind = "throw" ->
            /\ UNCHANGED <<hist, skeletonRef, helpers>>
            /\ UNCHANGED <<url, type, mtlUrl, created, model, fbx, gltfScene,
                           inflight>>
            /\ ev' = Event(h, d, "", TRUE)
       [] d.kind = "other" -> AcceptOther(h, d, mtlUrl)
       [] d.kind = "alert" ->
            /\ UNCHANGED <<hist, skeletonRef, helpers>>
            /\ UNCHANGED <<url, type, mtlUrl, created, model, fbx, gltfScene,
                           inflight>>
            /\ ev' = Event(h, d, UnsupportedFormatAlert, FALSE)

handleFileChangeP0(files) ==
  /\ build = "part0"
  \* <input type="file"> without `multiple`
  /\ Len(files) <= 1
  /\ LET d == OfList(FirstFilePlans[files], files)
     IN  IF d.kind = "none"
         THEN Nothing /\ UNCHANGED fileName
         ELSE AcceptFirstP0("handleFileChangeP0", d)
  /\ lastFit' = NoFit
  /\ UNCHANGED <<build, showBones, environmentPreset, camera>>

handleDropP0(files) ==
  /\ build = "part0"
  /\ LET d == OfList(FirstFilePlans[files], files)
     IN  IF d.kind = "none"
         THEN Nothing /\ UNCHANGED fileName
         ELSE AcceptFirstP0("handleDropP0", d)
  /\ lastFit' = NoFit
  /\ UNCHANGED <<build, showBones, environmentPreset, camera>>

(***************************************************************************)
(* Option widgets and camera controls                                      *)
(***************************************************************************)
\* onChange={(e) => setShowBones(e.target.checked)}
setShowBones ==
  /\ BonesCheckboxOffered
  /\ showBones' = ~showBones
  \* FBXModel re-renders with the new prop; the effect runs when the render
  \* commits, that is unless useFBX(url) is still suspended
  /\ LET r == skeletonRerun(fbx, ~showBones, skeletonRef, helpers)
     IN  IF fbx # NoObject
         THEN skeletonRef' = r.ref /\ helpers' = r.scene
         ELSE UNCHANGED <<skeletonRef, helpers>>
  /\ ev' = NoEvent
  /\ lastFit' = NoFit
  /\ UNCHANGED hist
  /\ UNCHANGED <<build, url, type, mtlUrl, environmentPreset, fileName,
                 created, camera, model, fbx, gltfScene, inflight>>

\* onChange={(e) => setEnvironmentPreset(e.target.value)}
setEnvironmentPreset(preset) ==
  /\ EnvironmentSelectOffered
  /\ preset # environmentPreset
  /\ environmentPreset' = preset
  /\ ev' = NoEvent
  /\ lastFit' = NoFit
  /\ UNCHANGED <<hist, skeletonRef, helpers>>
  /\ UNCHANGED <<build, url, type, mtlUrl, showBones, fileName, created,
                 camera, model, fbx, gltfScene, inflight>>

\* <OrbitControls makeDefault .../>: the user rotates, zooms or pans
OrbitControls(p) ==
  /\ Mounted # "null"
  /\ camera.position # p
  /\ camera' = [camera EXCEPT !.position = p]
  /\ ev' = NoEvent
  /\ lastFit' = NoFit
  /\ UNCHANGED <<hist, skeletonRef, helpers>>
  /\ UNCHANGED <<build, url, type, mtlUrl, showBones, environmentPreset,
                 fileName, created, model, fbx, gltfScene, inflight>>

(***************************************************************************)
(* Loader callbacks and effects                                            *)
(***************************************************************************)
Fitted(by, r) == [by |-> by, obj |-> r.obj, cameraZ |-> r.cameraZ]

\* mtlLoader.load onLoad: materials.preload(); setMaterials; loadObj()
MTLLoaded(l) ==
  /\ l \in inflight /\ l.stage = "mtl"
  /\ inflight' = (inflight \ {l})
                   \cup {[l EXCEPT !.stage = "obj", !.materials = TRUE,
                                   !.calls = @ \o <<"setMaterials",
                                                    "objLoader.load">>]}
  /\ ev' = NoEvent
  /\ lastFit' = NoFit
  /\ UNCHANGED <<hist, skeletonRef, helpers>>
  /\ UNCHANGED <<build, url, type, mtlUrl, showBones, environmentPreset,
                 fileName, created, camera, model, fbx, gltfScene>>

\* variant: an onError callback that only warns
MTLFailedSilently(l) ==
  /\ l \in inflight /\ l.stage = "mtl"
  /\ inflight' = (inflight \ {l}) \cup {[l EXCEPT !.stage = "end"]}
  /\ ev' = NoEvent
  /\ lastFit' = NoFit
  /\ UNCHANGED <<hist, skeletonRef, helpers>>
  /\ UNCHANGED <<build, url, type, mtlUrl, showBones, environmentPreset,
                 fileName, created, camera, model, fbx, gltfScene>>

\* mtlLoader.load onError: console.warn; loadObj()
MTLFailed(l) ==
  /\ l \in inflight /\ l.stage = "mtl"
  /\ inflight' = (inflight \ {l})
                   \cup {[l EXCEPT !.stage = "obj",
                                   !.calls = Append(@, "objLoader.load")]}
  /\ ev' = NoEvent
  /\ lastFit' = NoFit
  /\ UNCHANGED <<hist, skeletonRef, helpers>>
  /\ UNCHANGED <<build, url, type, mtlUrl, showBones, environmentPreset,
                 fileName, created, camera, model, fbx, gltfScene>>

\* fetch(autoMtlUrl, {method: 'HEAD'}) answers ok: loadWithMaterial(autoMtlUrl)
HEADOk(l) ==
  /\ l \in inflight /\ l.stage = "head"
  /\ inflight' = (inflight \ {l})
                   \cup {[l EXCEPT !.stage = "mtl",
                                   !.calls = Append(@, "mtlLoader.load")]}
  /\ ev' = NoEvent
  /\ lastFit' = NoFit
  /\ UNCHANGED <<hist, skeletonRef, helpers>>
  /\ UNCHANGED <<build, url, type, mtlUrl, showBones, environmentPreset,
                 fileName, created, camera, model, fbx, gltfScene>>

\* the HEAD probe answers with a status that is not ok: loadObj()
HEADNotOk(l) ==
  /\ l \in inflight /\ l.stage = "head"
  /\ inflight' = (inflight \ {l})
                   \cup {[l EXCEPT !.stage = "obj",
                                   !.calls = Append(@, "objLoader.load")]}
  /\ ev' = NoEvent
  /\ lastFit' = NoFit
  /\ UNCHANGED <<hist, skeletonRef, helpers>>
  /\ UNCHANGED <<build, url, type, mtlUrl, showBones, environmentPreset,
                 fileName, created, camera, model, fbx, gltfScene>>

\* the fetch promise rejects: .catch(() => loadObj())
HEADFailed(l) ==
  /\ l \in inflight /\ l.stage = "head"
  /\ inflight' = (inflight \ {l})
                   \cup {[l EXCEPT !.stage = "obj",
                                   !.calls = Append(@, "objLoader.load")]}
  /\ ev' = NoEvent
  /\ lastFit' = NoFit
  /\ UNCHANGED <<hist, skeletonRef, helpers>>
  /\ UNCHANGED <<build, url, type, mtlUrl, showBones, environmentPreset,
                 fileName, created, camera, model, fbx, gltfScene>>

\* objLoader.load onLoad: default material, auto-fit, setModel(obj)
OBJLoaded(l, g) ==
  /\ l \in inflight /\ l.stage = "obj"
  /\ LET r == OBJFit(NewObject(l.url, g), camera)
     IN  /\ camera' = r.camera
         \* setModel of an unmounted component does nothing
         /\ model' = IF l.live THEN r.obj ELSE model
         /\ lastFit' = Fitted("OBJModel", r)
  /\ hist' = IF l.live /\ l.url = url THEN [hist EXCEPT !.loaded = TRUE]
             ELSE hist
  /\ inflight' = inflight \ {l}
  /\ ev' = NoEvent
  /\ UNCHANGED <<skeletonRef, helpers>>
  /\ UNCHANGED <<build, url, type, mtlUrl, showBones, environmentPreset,
                 fileName, created, fbx, gltfScene>>

\* objLoader.load onError: console.error
OBJFailed(l) ==
  /\ l \in inflight /\ l.stage = "obj"
  /\ inflight' = inflight \ {l}
  /\ ev' = NoEvent
  /\ lastFit' = NoFit
  /\ UNCHANGED <<hist, skeletonRef, helpers>>
  /\ UNCHANGED <<build, url, type, mtlUrl, showBones, environmentPreset,
                 fileName, created, camera, model, fbx, gltfScene>>

\* useFBX(url) resolves; FBXModel renders and its two effects run
FBXLoaded(g, b) ==
  /\ Mounted = "FBXModel" /\ fbx = NoObject
  /\ LET r == FBXFit(NewFBX(url, g, b), camera)
         k == skeletonRerun(r.obj, showBones, skeletonRef, helpers)
     IN  /\ fbx' = r.obj
         /\ camera' = r.camera
         /\ lastFit' = Fitted("FBXModel", r)
         /\ skeletonRef' = k.ref
         /\ helpers' = k.scene
  /\ hist' = [hist EXCEPT !.loaded = TRUE]
  /\ ev' = NoEvent
  /\ UNCHANGED <<build, url, type, mtlUrl, showBones, environmentPreset,
                 fileName, created, model, gltfScene, inflight>>

\* useGLTF(url) resolves; GLTFModel renders and its fit effect runs
GLTFLoaded(g) ==
  /\ Mounted = "GLTFModel" /\ gltfScene = NoObject
  /\ LET r == GLTFFit(NewObject(url, g), camera)
     IN  /\ gltfScene' = r.obj
         /\ camera' = r.camera
         /\ lastFit' = Fitted("GLTFModel", r)
  /\ hist' = [hist EXCEPT !.loaded = TRUE]
  /\ ev' = NoEvent
  /\ UNCHANGED <<skeletonRef, helpers>>
  /\ UNCHANGED <<build, url, type, mtlUrl, showBones, environmentPreset,
                 fileName, created, model, fbx, inflight>>

\* React runs the FBXModel fit effect again on the same fbx (the effect is
\* re-invoked: Strict Mode re-mount, refresh)
FBXEffectAgain ==
  /\ Mounted = "FBXModel" /\ fbx # NoObject
  /\ LET r == FBXFit(fbx, camera)
     IN  /\ fbx' = r.obj
         /\ camera' = r.camera
         /\ lastFit' = Fitted("FBXModel", r)
  /\ ev' = NoEvent
  /\ UNCHANGED <<hist, skeletonRef, helpers>>
  /\ UNCHANGED <<build, url, type, mtlUrl, showBones, environmentPreset,
                 fileName, created, model, gltfScene, inflight>>

\* React runs the GLTFModel fit effect again on the same model
GLTFEffectAgain ==
  /\ Mounted = "GLTFModel" /\ gltfScene # NoObject
  /\ LET r == GLTFFit(gltfScene, camera)
     IN  /\ gltfScene' = r.obj
         /\ camera' = r.camera
         /\ lastFit' = Fitted("GLTFModel", r)
  /\ ev' = NoEvent
  /\ UNCHANGED <<hist, skeletonRef, helpers>>
  /\ UNCHANGED <<build, url, type, mtlUrl, showBones, environmentPreset,
                 fileName, created, model, fbx, inflight>>

Next ==
  \/ \E files \in FileChangeLists : handleFileChange(files)
  \/ \E files \in DropLists : handleDrop(files)
  \/ \E files \in SingleFileLists : handleFileChangeP0(files)
  \/ \E files \in FirstFileLists : handleDropP0(files)
  \/ setShowBones
  \/ \E i \in 1..Len(environmentPresets) :
       /\ environmentPresets[i] \in PresetsPicked
       /\ setEnvironmentPreset(environmentPresets[i])
  \/ \E p \in OrbitPositions : OrbitControls(p)
  \/ \E l \in inflight : MTLLoaded(l)
  \/ \E l \in inflight : MTLFailed(l)
  \/ \E l \in inflight, g \in Geometries : OBJLoaded(l, g)
  \/ \E l \in inflight : OBJFailed(l)
  \/ \E g \in Geometries, b \in BOOLEAN : FBXLoaded(g, b)
  \/ \E g \in Geometries : GLTFLoaded(g)
  \/ FBXEffectAgain
  \/ GLTFEffectAgain

Spec == Init /\ [][Next]_vars

TypeOK ==
  /\ build \in {"main", "part0"}
  /\ type \in ModelType \cup {NoType}
  /\ showBones \in BOOLEAN
  /\ created \in 0..MaxUrls

(***************************************************************************)
(* OBJModel on its own, with the props a parent can give it: a blob url    *)
(* or a url on a server ('http...' or '/...'), with or without mtlUrl.     *)
(* Every request is answered in the end: ObjSpec is fair to the answers of *)
(* the HEAD probe and of the MTL load.                                     *)
(***************************************************************************)
UrlSchemes == {"blob", "http", "/"}

ObjInit == Init /\ build = "main"

\* <OBJModel url={url} mtlUrl={mtlUrl} /> rendered with new props
OBJModelProps(s, withMtl) ==
  LET u == [id |-> created + 1, scheme |-> s]
      m == IF withMtl THEN [id |-> created + 2, scheme |-> "blob"]
           ELSE NullUrl
      n == IF withMtl THEN 2 ELSE 1
  IN  /\ created + n <= MaxUrls
      /\ url' = u
      /\ type' = "obj"
      /\ mtlUrl' = m
      /\ created' = created + n
      /\ Render(u, "obj", m)
      /\ ev' = NoEvent
      /\ lastFit' = NoFit
      /\ UNCHANGED <<build, showBones, environmentPreset, fileName, camera>>

HeadAnswers ==
  \E l \in inflight : HEADOk(l) \/ HEADNotOk(l) \/ HEADFailed(l)
MtlAnswers == \E l \in inflight : MTLLoaded(l) \/ MTLFailed(l)

ObjNext ==
  \/ \E s \in UrlSchemes, withMtl \in BOOLEAN : OBJModelProps(s, withMtl)
  \/ \E l \in inflight : HEADOk(l)
  \/ \E l \in inflight : HEADNotOk(l)
  \/ \E l \in inflight : HEADFailed(l)
  \/ \E l \in inflight : MTLLoaded(l)
  \/ \E l \in inflight : MTLFailed(l)
  \/ \E l \in inflight, g \in Geometries : OBJLoaded(l, g)
  \/ \E l \in inflight : OBJFailed(l)

ObjSpec ==
  /\ ObjInit
  /\ [][ObjNext]_vars
  /\ WF_vars(HeadAnswers)
  /\ WF_vars(MtlAnswers)

(***************************************************************************)
(* The two file handlers of src/src/components/ModelViewer.tsx on every    *)
(* list of files, not on one list per decision: FileSpec                   *)
(***************************************************************************)
FileInit == Init /\ build = "main"

FileNext ==
  \/ \E files \in FileLists : handleFileChange(files)
  \/ \E files \in FileLists : handleDrop(files)

FileSpec == FileInit /\ [][FileNext]_vars

(***************************************************************************)
(* The auto-fit routine on its own: FitSpec hands the same object and the  *)
(* same camera to the three implementations.  The inputs range over the    *)
(* boxes below, over objects that are not at the origin (an object that    *)
(* was fitted before) and over several perspective fields of view (the     *)
(* Canvas of this program uses 45).                                        *)
(***************************************************************************)
FitGeometries ==
  { NoGeometry,
    Geom(Vec(2, 2, 2), Vec(2, 2, 2)),
    Geom(Vec(-2, -2, -2), Vec(2, 2, 2)),
    Geom(Vec(0, 0, 0), Vec(2, 4, 6)),
    Geom(Vec(2, -6, 0), Vec(4, 6, 2)),
    Geom(Vec(2, 0, -4), Vec(10, 2, -2)) }
FitPositions == { Vec(0, 0, 0), Vec(-1, -2, -3), Vec(5, 0, -7) }
FitFovs == { 45, 60, 90 }
FitCameraPositions ==
  { Vec(RInt(0), RInt(0), RInt(10)), Vec(RInt(4), RInt(3), RInt(5)) }

FitInit ==
  /\ build = "main"
  /\ url = createObjectURL(1, NoFile)
  /\ type \in {"obj", "fbx", "glb"}
  /\ mtlUrl = NullUrl
  /\ showBones = FALSE
  /\ environmentPreset = "city"
  /\ fileName = NoFile
  /\ created = 1
  /\ \E p \in FitCameraPositions, f \in FitFovs :
       camera = [CanvasCamera EXCEPT !.position = p, !.fov = f]
  /\ \E g \in FitGeometries, p \in FitPositions :
       LET o == [NewObject(url, g) EXCEPT !.position = p]
       IN  /\ model = (IF type = "obj" THEN o ELSE NoObject)
           /\ fbx = (IF type = "fbx" THEN o ELSE NoObject)
           /\ gltfScene = (IF type = "glb" THEN o ELSE NoObject)
  /\ inflight = {}
  /\ skeletonRef = NoHelper
  /\ helpers = <<>>
  /\ ev = NoEvent
  /\ lastFit = NoFit
  /\ hist = NoHistory

\* the fit of the OBJ callback, run on the object under test
FitOBJModel ==
  /\ model # NoObject
  /\ LET r == OBJFit(model, camera)
     IN  /\ model' = r.obj
         /\ camera' = r.camera
         /\ lastFit' = Fitted("OBJModel", r)
  /\ UNCHANGED <<hist, skeletonRef, helpers>>
  /\ UNCHANGED <<build, url, type, mtlUrl, showBones, environmentPreset,
                 fileName, created, fbx, gltfScene, inflight, ev>>

FitNext == FitOBJModel \/ FBXEffectAgain \/ GLTFEffectAgain

FitSpec == FitInit /\ [][FitNext]_vars

(***************************************************************************)
(* Vocabulary of the claims, defined without the operators they judge      *)
(***************************************************************************)
HasDot(name) == \E i \in 1..Len(name) : name[i] = "."
\* the text after the last '.', lower-cased
ExtensionOf(name) ==
  LET last == CHOOSE i \in 1..Len(name) :
                name[i] = "." /\ \A j \in (i+1)..Len(name) : name[j] # "."
  IN  toLowerCase(SubSeq(name, last + 1, Len(name)))
SupportedExtensions ==
  { <<"o","b","j">>, <<"f","b","x">>, <<"g","l","t","f">>, <<"g","l","b">> }
\* the name has an extension and it is none of obj, fbx, gltf, glb
HasUnsupportedExtension(name) ==
  HasDot(name) /\ ExtensionOf(name) \notin SupportedExtensions
\* the type the extension stands for; a name without '.' has none
ExpectedType(name) ==
  IF ~HasDot(name) THEN UnsupportedFileType
  ELSE LET e == ExtensionOf(name)
       IN  CASE e = <<"o","b","j">>     -> "obj"
             [] e = <<"f","b","x">>     -> "fbx"
             [] e = <<"g","l","t","f">> -> "gltf"
             [] e = <<"g","l","b">>     -> "glb"
             [] OTHER                   -> UnsupportedFileType
ExpectedLoader(t) ==
  IF t = "obj" THEN "OBJModel" ELSE IF t = "fbx" THEN "FBXModel" ELSE "GLTFModel"

FileEvent == ev.handler # "none"
JustFitted == lastFit.by # "none"
\* width, height and depth of an object's bounding box (0 without geometry)
Extent(o, k) == IF o.geom.empty THEN 0 ELSE o.geom.max[k] - o.geom.min[k]
LargestExtent(o) ==
  CHOOSE m \in {Extent(o, 1), Extent(o, 2), Extent(o, 3)} :
    \A k \in 1..3 : Extent(o, k) <= m
\* twice the centre of the object's world bounding box
TwiceWorldCentre(o) ==
  [k \in 1..3 |-> o.geom.min[k] + o.geom.max[k] + 2 * o.position[k]]
\* sin(fov / 2) for a field of view in degrees
SinHalfFov(deg) == sin(RNorm(deg, 360))

(***************************************************************************)
(* Claims                                                                  *)
(***************************************************************************)

\* C1: whenever a handler has called getModelType on a name, the result is
\* the type of the text after the last '.', the matching loader is mounted,
\* and any other name (also one without '.') raised the error and changed
\* nothing.
C1_ExtensionDecides ==
  (FileEvent /\ ev.name # NoFile) =>
     /\ ev.result = ExpectedType(ev.name)
     /\ ev.result \in ModelType =>
          type = ev.result /\ Mounted = ExpectedLoader(ev.result)
     /\ ev.result = UnsupportedFileType => ~ev.changed

\* C2: right after an auto-fit, the centre of the fitted object's world
\* bounding box is the origin, whatever its position was before.
C2_CentredAfterFit ==
  (JustFitted /\ ~lastFit.obj.geom.empty) =>
     TwiceWorldCentre(lastFit.obj) = Vec(0, 0, 0)

\* C3: right after an auto-fit, the distance computed is
\* d = 1.5 * maxDim / sin(fov / 2), maxDim the largest of width, height and
\* depth, and it is the camera's z.
C3_CameraDistance ==
  JustFitted =>
     LET d == RDiv(RMul(<<3, 2>>, RInt(LargestExtent(lastFit.obj))),
                   SinHalfFov(camera.fov))
     IN  /\ lastFit.cameraZ = d
         /\ camera.position[3] = d

C3_Witness ==
  /\ JustFitted
  /\ lastFit.by = "GLTFModel"
  /\ camera.fov = 60
  /\ LargestExtent(lastFit.obj) = 12
  /\ Extent(lastFit.obj, 2) = 12

\* C4: right after an auto-fit, the camera is at (0, 0, d).
C4_CameraOnAxis ==
  JustFitted => camera.position = Vec(RInt(0), RInt(0), lastFit.cameraZ)

\* C5: right after an auto-fit, near is 0.1, far is 10 * d for the d of that
\* run, and the projection matrix was computed from these two values.
C5_NearFarProjection ==
  JustFitted =>
     /\ camera.near = <<1, 10>>
     /\ camera.far = RMul(RInt(10), lastFit.cameraZ)
     /\ camera.projection = [near |-> <<1, 10>>,
                             far |-> RMul(RInt(10), lastFit.cameraZ)]

C5_Witness ==
  /\ JustFitted
  /\ lastFit.by = "OBJModel"
  /\ lastFit.cameraZ # RInt(0)
  /\ camera.far # RInt(1000)
  /\ created >= 2

\* C6: every object a component displays (the model of OBJModel, the fbx of
\* FBXModel, the scene of GLTFModel) has had the auto-fit routine run on it.
C6_LoadedIsFitted ==
  /\ model # NoObject => model.fitted
  /\ fbx # NoObject => fbx.fitted
  /\ gltfScene # NoObject => gltfScene.fitted

C6_Witness ==
  /\ Mounted = "GLTFModel"
  /\ gltfScene # NoObject
  /\ gltfScene.url = 3
  /\ JustFitted

\* C7: on the same object and the same camera the three implementations
\* leave the same object position and the same camera position, near plane
\* and far plane.
UnderTest ==
  IF model # NoObject THEN model ELSE IF fbx # NoObject THEN fbx ELSE gltfScene
C7_FitsAgree ==
  LET a == OBJFit(UnderTest, camera)
      b == FBXFit(UnderTest, camera)
      c == GLTFFit(UnderTest, camera)
  IN  /\ a.obj.position = b.obj.position /\ b.obj.position = c.obj.position
      /\ a.camera.position = b.camera.position
      /\ b.camera.position = c.camera.position
      /\ a.camera.near = b.camera.near /\ b.camera.near = c.camera.near
      /\ a.camera.far = b.camera.far /\ b.camera.far = c.camera.far

C7_Witness ==
  /\ JustFitted
  /\ lastFit.by = "GLTFModel"
  /\ ~UnderTest.geom.empty
  /\ UnderTest.position # Vec(0, 0, 0)
  /\ camera.position[1] # RInt(0)
  /\ FBXFit(UnderTest, camera).obj.position # UnderTest.position

\* C8: in ModelViewer.tsx, when the file a handler chose has an unsupported
\* extension, the error is shown with alert and url, type and mtlUrl keep
\* their values.
C8_RejectKeepsState ==
  (/\ FileEvent
   /\ ev.handler \in {"handleFileChange", "handleDrop"}
   /\ ev.file # NoFile
   /\ HasUnsupportedExtension(ev.file)) =>
     /\ ev.alert = UnsupportedFileType
     /\ ~ev.changed

C8_Witness ==
  /\ FileEvent
  /\ ev.handler = "handleDrop"
  /\ HasUnsupportedExtension(ev.file)
  /\ Mounted = "FBXModel"
  /\ fbx # NoObject

\* C9: in part_000, when the selected or dropped file has an unsupported
\* type, the user is alerted with the "unsupported format" message and url
\* and type are unchanged.
C9_AlertInPart0 ==
  (/\ FileEvent
   /\ ev.handler \in {"handleFileChangeP0", "handleDropP0"}
   /\ ev.file # NoFile
   /\ HasUnsupportedExtension(ev.file)) =>
     /\ ev.alert = UnsupportedFormatAlert
     /\ ~ev.changed

\* C10: the bones checkbox is offered exactly when type is fbx, the
\* environment selector exactly when type is gltf or glb, never both, and
\* neither for obj or without a model.
C10_OptionWidgets ==
  /\ BonesCheckboxOffered <=> type = "fbx"
  /\ EnvironmentSelectOffered <=> type \in {"gltf", "glb"}
  /\ ~(BonesCheckboxOffered /\ EnvironmentSelectOffered)
  /\ (type = "obj" \/ url = NullUrl) =>
       ~BonesCheckboxOffered /\ ~EnvironmentSelectOffered

C10_Witness ==
  /\ type = "fbx"
  /\ BonesCheckboxOffered
  /\ showBones
  /\ environmentPreset = "sunset"

\* C11: the scene shows at most one loaded model, and once the object of
\* the file accepted last has been delivered, none of the models that were
\* shown when that file was accepted is still in the scene.
C11_OneModelInScene ==
  /\ Cardinality(Displayed) <= 1
  /\ hist.loaded => hist.replaced \cap DisplayedIds = {}

C11_Witness ==
  /\ hist.loaded
  /\ hist.replaced # {}
  /\ Mounted = "OBJModel"
  /\ model # NoObject
  /\ model.url = url.id
  /\ inflight = {}

\* a file of the list is an .obj file and another file of the list has its
\* name with '.obj' replaced by '.mtl', compared case-insensitively
IsObjName(name) == endsWith(toLowerCase(name), DotObj)
MtlNameOf(name) ==
  toLowerCase(SubSeq(name, 1, Len(name) - Len(DotObj)) \o DotMtl)
HasObjWithMtl(files) ==
  \E i, j \in 1..Len(files) :
    /\ IsObjName(files[i])
    /\ toLowerCase(files[j]) = MtlNameOf(files[i])

\* C12: a file dialog selection or a drop whose list holds an .obj file and
\* its .mtl file, in any order, ends with type = obj, url made from the obj
\* file and mtlUrl non-null.
C12_ObjMtlPaired ==
  (/\ FileEvent
   /\ ev.handler \in {"handleFileChange", "handleDrop"}
   /\ HasObjWithMtl(ev.files)) =>
     /\ ev.changed
     /\ type = "obj"
     /\ IsObjName(ev.file)
     /\ mtlUrl # NullUrl

\* C13: the scene holds at most one skeleton helper; a helper is there only
\* while an FBX model is mounted and showBones is true; and whenever the
\* FBX model is loaded, the helper is there exactly when showBones is true
\* and the model has a skinned mesh, and it is the helper of that model.
C13_SkeletonHelper ==
  /\ Len(helpers) <= 1
  /\ helpers # <<>> => (Mounted = "FBXModel" /\ showBones)
  /\ fbx # NoObject =>
       /\ helpers # <<>> <=> (showBones /\ fbx.skeleton)
       /\ helpers # <<>> => helpers = <<fbx.url>>

\* C14: in src/src/components/ModelViewer.tsx mtlUrl is non-null only while
\* type is obj.
C14_MtlOnlyForObj ==
  build = "main" => (mtlUrl # NullUrl => type = "obj")

C14_Witness ==
  /\ build = "main"
  /\ type = "fbx"
  /\ mtlUrl = NullUrl
  /\ \E l \in inflight : l.mtlUrl # NullUrl

\* how often this run of the effect has called objLoader.load
ObjStarts(l) ==
  Cardinality({ i \in 1..Len(l.calls) : l.calls[i] = "objLoader.load" })
\* every objLoader.load of the run comes after a setMaterials
MaterialsSetFirst(l) ==
  \A i \in 1..Len(l.calls) :
    l.calls[i] = "objLoader.load" =>
      \E j \in 1..(i-1) : l.calls[j] = "setMaterials"

\* C15: every run of the OBJModel effect starts the OBJ load at most once
\* and in the end once, on each of its paths, and when the MTL was loaded
\* the OBJ load starts after the materials were set on the loader.
C15_ObjLoadStartsOnce ==
  /\ [](\A l \in inflight :
          /\ ObjStarts(l) <= 1
          /\ l.materials => MaterialsSetFirst(l))
  /\ \A n \in 1..MaxUrls :
       (\E l \in inflight : l.url.id = n)
         ~> (\E l \in inflight : l.url.id = n /\ ObjStarts(l) = 1)

C15_Witness ==
  \E l \in inflight :
    /\ l.url.scheme = "http"
    /\ l.calls = <<"fetch", "mtlLoader.load", "setMaterials",
                   "objLoader.load">>

\* the camera distance the fit gives for object o
DistanceFor(o) ==
  RDiv(RMul(<<3, 2>>, RInt(LargestExtent(o))), SinHalfFov(camera.fov))

\* C16: an OBJ callback that fits the camera belongs to the load of the
\* current url, never to a superseded one; and once the object of the
\* current url was delivered and no load is left in flight, OBJModel shows
\* the object of the current url and the camera distance is the one of
\* that object.
C16_LatestObjWins ==
  /\ lastFit.by = "OBJModel" => lastFit.obj.url = url.id
  /\ (Mounted = "OBJModel" /\ hist.loaded /\ inflight = {}) =>
       /\ model.url = url.id
       /\ camera.position[3] = DistanceFor(model)

\* the effect run r changes neither the object position nor the camera
\* position, near and far
FitChangesNothing(o, r) ==
  /\ r.obj.position = o.position
  /\ r.camera.position = camera.position
  /\ r.camera.near = camera.near
  /\ r.camera.far = camera.far

\* C17: right after the FBX or GLTF fit effect has run, running it once
\* more on the same object with the same camera changes nothing.
C17_FitIdempotent ==
  /\ (lastFit.by = "FBXModel" /\ fbx # NoObject) =>
       FitChangesNothing(fbx, FBXFit(fbx, camera))
  /\ (lastFit.by = "GLTFModel" /\ gltfScene # NoObject) =>
       FitChangesNothing(gltfScene, GLTFFit(gltfScene, camera))

\* p < q for two fractions with positive denominators
RLess(p, q) == p[1] * q[2] < q[1] * p[2]

\* C18: after every auto-fit, whatever the loaded object, the camera's near
\* plane is strictly below its far plane and the camera distance computed
\* by the fit is strictly positive.
C18_NearBelowFar ==
  JustFitted =>
    /\ RLess(camera.near, camera.far)
    /\ RLess(RInt(0), lastFit.cameraZ)

====
